---- MODULE Spec2Model ----
(***************************************************************************)
(* A model of parsimony/functions/taylor.py: the first order Taylor        *)
(* approximation classes (single-block and multiblock) and the             *)
(* FirstOrderTaylorWrapper.                                                *)
(*                                                                         *)
(* Numbers are integers.  Vectors are numpy arrays of shape (p, 1), the    *)
(* shape the docstrings of the module give ("numpy array (p-by-1)"); an    *)
(* array is a record of its shape and its elements in row-major order, a   *)
(* Python scalar is the array of shape <<>>.                               *)
(***************************************************************************)
EXTENDS Integers, Sequences, FiniteSets, TLC

VARIABLES
    approx,     \* the FirstOrderTaylorApproximation under test
    mbapprox,   \* the MultiblockFirstOrderTaylorApproximation under test
    arglist,    \* the caller's list of block indices, passed to its __init__
    ret,        \* the last call made by the caller and what it gave
    epoch,      \* the last call that cleared the caches
    prev,       \* the point and caches when at_point was last entered
    ncalls,     \* f and grad calls made since epoch
    varied,     \* two of those calls had different arguments
    heap,       \* the objects of the wrapper's run, by identity
    orig,       \* the function the caller built
    res,        \* the last call of the wrapper and its outcome
    pre,        \* the heap when the wrapper was last called
    nwraps      \* the calls of the wrapper so far

vars == <<approx, mbapprox, arglist, ret, epoch, prev, ncalls, varied,
          heap, orig, res, pre, nwraps>>

mbvars == <<mbapprox, arglist>>

wrapvars == <<heap, orig, res, pre, nwraps>>

(***************************************************************************)
(* Bounds of the model.                                                    *)
(***************************************************************************)
\* The numbers of rows p of the (p, 1) vectors: one where every shape
\* agrees, one where rows and columns differ.
Dims == {1, 2}
\* The elements of the input vectors range over 0..MaxCoord.
MaxCoord == 1
\* The caller makes at most MaxCalls f and grad calls between two calls that
\* clear the caches.
MaxCalls == 2
\* The wrapper is called at most MaxWraps times.
MaxWraps == 2

(***************************************************************************)
(* Python's None and a present value.                                      *)
(***************************************************************************)
None == <<>>

Some(v) == <<v>>

(***************************************************************************)
(* numpy arrays.                                                           *)
(***************************************************************************)
RECURSIVE SumSeq(_)
SumSeq(s) == IF s = <<>> THEN 0 ELSE Head(s) + SumSeq(Tail(s))

Scalar(n) == [shape |-> <<>>, data |-> <<n>>]

ColVec(v) == [shape |-> <<Len(v), 1>>, data |-> v]

Vals == 0..MaxCoord

Vec(p) == {ColVec(v) : v \in [1..p -> Vals]}

\* a.T of a two-dimensional array
np_T(a) ==
    LET r == a.shape[1]
        c == a.shape[2]
    IN  [shape |-> <<c, r>>,
         data |-> [n \in 1..(r * c) |->
                     a.data[(((n - 1) % r)) * c + ((n - 1) \div r) + 1]]]

\* a - b and a + b of two arrays of the same shape
np_sub(a, b) == [shape |-> a.shape,
                 data |-> [n \in 1..Len(a.data) |-> a.data[n] - b.data[n]]]

np_add(a, b) == [shape |-> a.shape,
                 data |-> [n \in 1..Len(a.data) |-> a.data[n] + b.data[n]]]

\* s + a of a Python number and an array
np_add_scalar(s, a) == [shape |-> a.shape,
                        data |-> [n \in 1..Len(a.data) |-> s + a.data[n]]]

\* np.dot of two two-dimensional arrays: the matrix product, a ValueError
\* when the inner dimensions differ
np_dot(a, b) ==
    LET r == a.shape[1]
        k == a.shape[2]
        c == b.shape[2]
        Term(i, j, m) == a.data[(i - 1) * k + m] * b.data[(m - 1) * c + j]
        Elem(i, j) == LET F(m) == Term(i, j, m) IN SumSeq([q \in 1..k |-> F(q)])
    IN  IF k # b.shape[1]
        THEN [exc |-> "ValueError", val |-> None]
        ELSE [exc |-> "none",
              val |-> [shape |-> <<r, c>>,
                       data |-> [n \in 1..(r * c) |->
                                   Elem(((n - 1) \div c) + 1, ((n - 1) % c) + 1)]]]

\* a[0, 0] of a two-dimensional array
np_item00(a) == Scalar(a.data[1])

\* every element of the array (or the scalar) is the number n
NumEq(a, n) == \A i \in 1..Len(a.data) : a.data[i] = n

(***************************************************************************)
(* The wrapped functions: collaborators with f(point) -> scalar,           *)
(* grad(point) -> vector and reset().  Two smooth functions stand for      *)
(* them; the stub counts the calls it receives.                            *)
(***************************************************************************)
FunIds == {"sq", "lin"}

\* "sq": f(x) = <x, x>;  "lin": f(x) = 1 + sum(x)
FunF(id, x) ==
    LET Sq(i) == x.data[i] * x.data[i]
        Id(i) == x.data[i]
    IN  IF id = "sq" THEN SumSeq([q \in 1..Len(x.data) |-> Sq(q)]) ELSE 1 + SumSeq([q \in 1..Len(x.data) |-> Id(q)])

FunGrad(id, x) ==
    [shape |-> x.shape,
     data |-> [n \in 1..Len(x.data) |-> IF id = "sq" THEN 2 * x.data[n] ELSE 1]]

Stub(id) == [id |-> id, nf |-> 0, ngrad |-> 0, nreset |-> 0]

ZeroCounts(self) ==
    [self EXCEPT !.function.nf = 0, !.function.ngrad = 0, !.function.nreset = 0]

(***************************************************************************)
(* class BaseTaylor / class FirstOrderTaylorApproximation                  *)
(*                                                                         *)
(* The wrapped function is a stub or, as a Taylor approximation is a       *)
(* function itself, another FirstOrderTaylorApproximation: its reset, f    *)
(* and grad are the methods of its class.  A call gives the object after   *)
(* it and what it returned or raised.                                      *)
(***************************************************************************)
RECURSIVE Function_reset(_)
RECURSIVE Function_f(_, _)
RECURSIVE Function_grad(_, _)
RECURSIVE BaseTaylor_reset_steps(_)
RECURSIVE BaseTaylor_reset(_)
RECURSIVE FOTA_reset_steps(_)
RECURSIVE FOTA_reset(_)
RECURSIVE BaseTaylor_precompute(_)
RECURSIVE FOTA_precompute_grad(_)
RECURSIVE FOTA_precompute(_)
RECURSIVE FOTA_f(_, _)
RECURSIVE FOTA_grad(_, _)

IsApproximation(function) == "point" \in DOMAIN function

\* self.function.reset(), called when self.function is not None
Function_reset(function) ==
    IF IsApproximation(function)
    THEN FOTA_reset(function)
    ELSE [function EXCEPT !.nreset = @ + 1]

\* self.function.f(point): None has no attribute f
Function_f(function, point) ==
    IF function = None
    THEN [self |-> function, exc |-> "AttributeError", val |-> None]
    ELSE IF IsApproximation(function)
    THEN FOTA_f(function, point)
    ELSE [self |-> [function EXCEPT !.nf = @ + 1], exc |-> "none",
          val |-> FunF(function.id, point)]

\* self.function.grad(point): None has no attribute grad
Function_grad(function, point) ==
    IF function = None
    THEN [self |-> function, exc |-> "AttributeError", val |-> None]
    ELSE IF IsApproximation(function)
    THEN FOTA_grad(function, point)
    ELSE [self |-> [function EXCEPT !.ngrad = @ + 1], exc |-> "none",
          val |-> FunGrad(function.id, point)]

BaseTaylor_reset_steps_clear_first(self) ==
    LET s1 == [self EXCEPT !.f_at_point = None]
        s2 == IF s1.function # None
              THEN [s1 EXCEPT !.function = Function_reset(@)]
              ELSE s1
    IN  <<s1, s2>>

\* BaseTaylor.reset, statement by statement: the object after
\* "if self.function is not None: self.function.reset()" and after
\* self.f_at_point = None
BaseTaylor_reset_steps(self) ==
    LET s1 == IF self.function # None
              THEN [self EXCEPT !.function = Function_reset(@)]
              ELSE self
        s2 == [s1 EXCEPT !.f_at_point = None]
    IN  <<s1, s2>>

\* BaseTaylor.reset
BaseTaylor_reset(self) == BaseTaylor_reset_steps(self)[2]

\* FirstOrderTaylorApproximation.reset, statement by statement: the steps
\* of BaseTaylor.reset, then the object after self.grad_at_point = None
FOTA_reset_steps(self) ==
    BaseTaylor_reset_steps(self)
    \o <<[BaseTaylor_reset(self) EXCEPT !.grad_at_point = None]>>

\* FirstOrderTaylorApproximation.reset
FOTA_reset(self) == FOTA_reset_steps(self)[3]

BaseTaylor_at_point_no_reset(self, point) == [self EXCEPT !.point = point]

\* BaseTaylor.at_point; self.reset() is the reset of the instance's class
BaseTaylor_at_point(self, point) ==
    FOTA_reset([self EXCEPT !.point = point])

\* BaseTaylor.__init__ followed by the reset of
\* FirstOrderTaylorApproximation.__init__
FOTA_init(function, point) ==
    FOTA_reset(
        BaseTaylor_at_point(
            [function |-> function, point |-> point,
             f_at_point |-> None, grad_at_point |-> None], point))

BaseTaylor_precompute_always(self) ==
    LET r == Function_f(self.function, self.point)
    IN  IF r.exc # "none"
        THEN [self |-> [self EXCEPT !.function = r.self], exc |-> r.exc]
        ELSE [self |-> [self EXCEPT !.function = r.self,
                                    !.f_at_point = Some(r.val)],
              exc |-> "none"]

\* BaseTaylor._precompute
BaseTaylor_precompute(self) ==
    LET r == Function_f(self.function, self.point)
    IN  IF self.f_at_point # None THEN [self |-> self, exc |-> "none"]
        ELSE IF r.exc # "none"
        THEN [self |-> [self EXCEPT !.function = r.self], exc |-> r.exc]
        ELSE [self |-> [self EXCEPT !.function = r.self,
                                    !.f_at_point = Some(r.val)],
              exc |-> "none"]

\* the gradient of FirstOrderTaylorApproximation._precompute
FOTA_precompute_grad(s) ==
    LET g == Function_grad(s.function, s.point)
    IN  IF g.exc # "none"
        THEN [self |-> [s EXCEPT !.function = g.self], exc |-> g.exc]
        ELSE [self |-> [s EXCEPT !.function = g.self,
                                 !.grad_at_point = Some(g.val)],
              exc |-> "none"]

\* FirstOrderTaylorApproximation._precompute
FOTA_precompute(self) ==
    LET r == BaseTaylor_precompute(self)
    IN  IF r.exc # "none" THEN r
        ELSE IF r.self.grad_at_point # None THEN r
        ELSE FOTA_precompute_grad(r.self)

\* self.f_at_point + np.dot(...): f_at_point is a number when the wrapped
\* function is a stub, the array f returned when it is an approximation
FOTA_f_sum(s, d) ==
    IF IsApproximation(s.function)
    THEN np_add(s.f_at_point[1], d)
    ELSE np_add_scalar(s.f_at_point[1], d)

\* FirstOrderTaylorApproximation.f
FOTA_f(self, w) ==
    LET r == FOTA_precompute(self)
        s == r.self
        d == np_dot(s.grad_at_point[1], np_sub(w, s.point))
    IN  IF r.exc # "none" THEN [self |-> s, exc |-> r.exc, val |-> None]
        ELSE IF d.exc # "none" THEN [self |-> s, exc |-> d.exc, val |-> None]
        ELSE [self |-> s, exc |-> "none", val |-> FOTA_f_sum(s, d.val)]

\* FirstOrderTaylorApproximation.grad
FOTA_grad(self, w) ==
    LET r == FOTA_precompute(self)
    IN  IF r.exc # "none" THEN [self |-> r.self, exc |-> r.exc, val |-> None]
        ELSE [self |-> r.self, exc |-> "none", val |-> r.self.grad_at_point[1]]

\* FirstOrderTaylorApproximation.L: the constant sqrt(consts.TOLERANCE)
FOTA_L(self, w) ==
    [self |-> self, exc |-> "none", val |-> "np.sqrt(consts.TOLERANCE)"]

(***************************************************************************)
(* Multiblock functions: collaborators with f(points) -> scalar,           *)
(* grad(points, block) -> vector and reset(), of NBlocks blocks.  Block    *)
(* numbers are Python's, from 0.                                           *)
(***************************************************************************)
NBlocks == 2

MBFunIds == {"cov", "sqsum"}

InnerProduct(x, y) ==
    LET P(i) == x.data[i] * y.data[i] IN SumSeq([q \in 1..Len(x.data) |-> P(q)])

\* "cov": f(x0, x1) = <x0, x1>;  "sqsum": f(x0, x1) = 1 + <x0, x0> + 2 <x1, x1>
MBFunF(id, xs) ==
    IF id = "cov"
    THEN InnerProduct(xs[1], xs[2])
    ELSE 1 + InnerProduct(xs[1], xs[1]) + 2 * InnerProduct(xs[2], xs[2])

MBFunGrad(id, xs, i) ==
    IF id = "cov"
    THEN xs[2 - i]
    ELSE [shape |-> xs[i + 1].shape,
          data |-> [n \in 1..Len(xs[i + 1].data) |->
                      2 * (i + 1) * xs[i + 1].data[n]]]

MBPoints(p) == [1..NBlocks -> Vec(p)]

(***************************************************************************)
(* The values a caller puts in a list of block indices: Python ints,       *)
(* floats (held as a number of halves, so that 1.5 is [float |-> 3]) and   *)
(* numeric strings (the list of their digits).                             *)
(***************************************************************************)
PyInt(n) == [int |-> n]

PyFloat(halves) == [float |-> halves]

PyStr(digits) == [str |-> digits]

IsInt(v) == DOMAIN v = {"int"}

\* int(c) of one decimal digit
DigitValue(c) ==
    CASE c = "0" -> 0 [] c = "1" -> 1 [] c = "2" -> 2 [] c = "3" -> 3
      [] c = "4" -> 4 [] c = "5" -> 5 [] c = "6" -> 6 [] c = "7" -> 7
      [] c = "8" -> 8 [] c = "9" -> 9

RECURSIVE ParseDigits(_)
ParseDigits(ds) ==
    IF ds = <<>>
    THEN 0
    ELSE 10 * ParseDigits(SubSeq(ds, 1, Len(ds) - 1)) + DigitValue(ds[Len(ds)])

\* int(v): a float is truncated towards zero, a string of digits parsed
int(v) ==
    IF DOMAIN v = {"int"} THEN v.int
    ELSE IF DOMAIN v = {"float"}
    THEN IF v.float >= 0 THEN v.float \div 2 ELSE -((-v.float) \div 2)
    ELSE ParseDigits(v.str)

\* the index values of the model: 0, 1, 0.0, 1.5 and "1"
IndexValues ==
    {PyInt(n) : n \in 0..(NBlocks - 1)}
    \cup {PyFloat(0), PyFloat(3), PyStr(<<"1">>)}

\* l[i] of a Python list l of n items: i is one of 0..n-1 or, counting
\* from the end, one of -n..-1
list_getitem(l, i) ==
    IF ~IsInt(i) THEN [exc |-> "TypeError", val |-> None]
    ELSE IF i.int >= Len(l) \/ i.int < -Len(l)
    THEN [exc |-> "IndexError", val |-> None]
    ELSE IF i.int < 0
    THEN [exc |-> "none", val |-> l[Len(l) + i.int + 1]]
    ELSE [exc |-> "none", val |-> l[i.int + 1]]

(***************************************************************************)
(* class MultiblockBaseTaylor /                                            *)
(* class MultiblockFirstOrderTaylorApproximation                           *)
(***************************************************************************)
\* MultiblockBaseTaylor.reset: self.function.reset() when self.function is
\* not None, then self.f_at_point = None
MultiblockBaseTaylor_reset(self) ==
    IF self.function # None
    THEN [self EXCEPT !.function.nreset = @ + 1, !.f_at_point = None]
    ELSE [self EXCEPT !.f_at_point = None]

\* MultiblockFirstOrderTaylorApproximation.reset
MBFOTA_reset(self) ==
    [MultiblockBaseTaylor_reset(self) EXCEPT !.grad_at_point = None]

\* MultiblockBaseTaylor.at_point
MultiblockBaseTaylor_at_point(self, point) ==
    MBFOTA_reset([self EXCEPT !.point = point])

\* MultiblockBaseTaylor.__init__ followed by the reset of
\* MultiblockFirstOrderTaylorApproximation.__init__: self.indices is a copy
\* of the list as it was passed
MBFOTA_init(function, point, indices) ==
    MBFOTA_reset(
        [MultiblockBaseTaylor_at_point(
            [function |-> function, point |-> point, indices |-> <<>>,
             f_at_point |-> None, grad_at_point |-> None], point)
         EXCEPT !.indices = indices])

\* the list the caller passed, after the loop of
\* MultiblockBaseTaylor.__init__: indices[i] = int(indices[i])
MultiblockBaseTaylor_init_argument(indices) ==
    [i \in 1..Len(indices) |-> PyInt(int(indices[i]))]

\* [self.point[self.indices[0]], self.point[self.indices[1]]]
SelectedBlocks(self) ==
    LET i0 == list_getitem(self.indices, PyInt(0))
        b0 == list_getitem(self.point, i0.val)
        i1 == list_getitem(self.indices, PyInt(1))
        b1 == list_getitem(self.point, i1.val)
    IN  IF i0.exc # "none" THEN i0
        ELSE IF b0.exc # "none" THEN b0
        ELSE IF i1.exc # "none" THEN i1
        ELSE IF b1.exc # "none" THEN b1
        ELSE [exc |-> "none", val |-> <<b0.val, b1.val>>]

\* MultiblockBaseTaylor._precompute: the object after the call and what
\* the call raised
MultiblockBaseTaylor_precompute(self) ==
    LET b == SelectedBlocks(self)
    IN  IF self.f_at_point # None THEN [self |-> self, exc |-> "none"]
        ELSE IF self.function = None
        THEN [self |-> self, exc |-> "AttributeError"]
        ELSE IF b.exc # "none" THEN [self |-> self, exc |-> b.exc]
        ELSE [self |-> [self EXCEPT
                          !.f_at_point = Some(MBFunF(self.function.id, b.val)),
                          !.function.nf = @ + 1],
              exc |-> "none"]

\* the gradients of MultiblockFirstOrderTaylorApproximation._precompute
MBFOTA_precompute_grads(s, blocks) ==
    [s EXCEPT
       !.grad_at_point =
           Some([i \in 1..Len(s.indices) |->
                   MBFunGrad(s.function.id, blocks, i - 1)]),
       !.function.ngrad = @ + Len(s.indices)]

\* self.grad_at_point = [0] * len(self.indices)
MBFOTA_precompute_zeros(s) ==
    [s EXCEPT !.grad_at_point = Some([i \in 1..Len(s.indices) |-> 0])]

\* the loop of MultiblockFirstOrderTaylorApproximation._precompute on the
\* object z that holds the list of zeros: a turn that raises leaves the
\* zeros behind
MBFOTA_precompute_loop(z) ==
    LET b == SelectedBlocks(z)
    IN  IF Len(z.indices) = 0 THEN [self |-> z, exc |-> "none"]
        ELSE IF z.function = None THEN [self |-> z, exc |-> "AttributeError"]
        ELSE IF b.exc # "none" THEN [self |-> z, exc |-> b.exc]
        ELSE [self |-> MBFOTA_precompute_grads(z, b.val), exc |-> "none"]

\* MultiblockFirstOrderTaylorApproximation._precompute
MBFOTA_precompute(self) ==
    LET r == MultiblockBaseTaylor_precompute(self)
    IN  IF r.exc # "none" THEN r
        ELSE IF r.self.grad_at_point # None THEN r
        ELSE MBFOTA_precompute_loop(MBFOTA_precompute_zeros(r.self))

\* the loop of MultiblockFirstOrderTaylorApproximation.f over the first n
\* entries of self.indices
RECURSIVE MBFOTA_f_loop(_, _, _)
MBFOTA_f_loop(s, w, n) ==
    IF n = 0
    THEN s.f_at_point[1]
    ELSE MBFOTA_f_loop(s, w, n - 1)
         + np_item00(np_dot(np_T(s.grad_at_point[1][n]),
                            np_sub(w[n], list_getitem(s.point,
                                                      s.indices[n]).val)).val).data[1]

\* g is the int 0 that _precompute put in the list before a turn of its
\* loop raised, not an array
IsZeroInt(g) == ToString(g) = "0"

\* what turn n of the loop of f raises: the int 0 has no attribute T, and
\* self.point[self.indices[i]] raises as a list does
MBFOTA_f_turn_raises(s, n) ==
    IF IsZeroInt(s.grad_at_point[1][n])
    THEN "AttributeError"
    ELSE list_getitem(s.point, s.indices[n]).exc

\* what the first n turns of the loop of f raise
RECURSIVE MBFOTA_f_loop_raises(_, _)
MBFOTA_f_loop_raises(s, n) ==
    IF n = 0 THEN "none"
    ELSE IF MBFOTA_f_loop_raises(s, n - 1) # "none"
    THEN MBFOTA_f_loop_raises(s, n - 1)
    ELSE MBFOTA_f_turn_raises(s, n)

MBFOTA_f_first_block_only(self, w) ==
    LET r == MBFOTA_precompute(self)
    IN  IF r.exc # "none"
        THEN [self |-> r.self, exc |-> r.exc, val |-> None]
        ELSE IF MBFOTA_f_loop_raises(r.self, 1) # "none"
        THEN [self |-> r.self, exc |-> MBFOTA_f_loop_raises(r.self, 1),
              val |-> None]
        ELSE [self |-> r.self, exc |-> "none",
              val |-> Scalar(MBFOTA_f_loop(r.self, w, 1))]

\* MultiblockFirstOrderTaylorApproximation.f
MBFOTA_f(self, w) ==
    LET r == MBFOTA_precompute(self)
        e == MBFOTA_f_loop_raises(r.self, Len(r.self.indices))
    IN  IF r.exc # "none"
        THEN [self |-> r.self, exc |-> r.exc, val |-> None]
        ELSE IF e # "none" THEN [self |-> r.self, exc |-> e, val |-> None]
        ELSE [self |-> r.self, exc |-> "none",
              val |-> Scalar(MBFOTA_f_loop(r.self, w, Len(r.self.indices)))]

\* MultiblockFirstOrderTaylorApproximation.grad
MBFOTA_grad(self, w, index) ==
    LET r == MBFOTA_precompute(self)
        g == list_getitem(r.self.grad_at_point[1], PyInt(index))
    IN  IF r.exc # "none"
        THEN [self |-> r.self, exc |-> r.exc, val |-> None]
        ELSE [self |-> r.self, exc |-> g.exc, val |-> g.val]

(***************************************************************************)
(* The objects the wrapper works on.  An object is a record of its class,  *)
(* the function it computes (id, and nonf for the non-smooth part), its    *)
(* Taylor marker fields (attrs: from the names present to their values),   *)
(* its f, grad and at_point entry points ("class" for the method of its    *)
(* class, else the function installed on the instance; at_point with the   *)
(* object its closure names), its groups of                                *)
(* sub-functions (grp_f, grp_d, grp_N for _f, _d, _N: lists of heap        *)
(* identities, nested by block for a multiblock composite) and, for a      *)
(* Taylor approximation, the instance's fields (state).                    *)
(***************************************************************************)
NonFIds == {"zero", "l1"}

Abs(n) == IF n < 0 THEN -n ELSE n

Sign(n) == IF n < 0 THEN -1 ELSE IF n > 0 THEN 1 ELSE 0

\* the penalties: "zero": g(x) = 0;  "l1": g(x) = sum |x_i|
PenaltyF(nid, x) ==
    LET A(i) == Abs(x.data[i])
    IN  IF nid = "zero" THEN 0 ELSE SumSeq([q \in 1..Len(x.data) |-> A(q)])

PenaltyGrad(nid, x) ==
    [shape |-> x.shape,
     data |-> [n \in 1..Len(x.data) |->
                 IF nid = "zero" THEN 0 ELSE Sign(x.data[n])]]

\* _non_f(x) and _grad_non_f(x, index) of a multiblock function
MBNonF(nid, xs) ==
    LET G(k) == PenaltyF(nid, xs[k]) IN SumSeq([q \in 1..Len(xs) |-> G(q)])

MBGradNonF(nid, xs, index) == PenaltyGrad(nid, xs[index + 1])

Object(cls, id, nonf) ==
    [cls |-> cls, id |-> id, nonf |-> nonf, attrs |-> <<>>,
     f |-> "class", grad |-> "class",
     at_point |-> [impl |-> "class", fun |-> 0],
     grp_f |-> <<>>, grp_d |-> <<>>, grp_N |-> <<>>, state |-> None]

PlainFunction(id) == Object("Function", id, "zero")

Penalty(nid) == Object("Penalty", "none", nid)

MBFunction(id, nid) == Object("MultiblockFunction", id, nid)

TaylorObject(id, a) ==
    [Object("FirstOrderTaylorApproximation", id, "zero")
     EXCEPT !.state = FOTA_init(Stub(id), a)]

MBTaylorObject(id, a) ==
    [Object("MultiblockFirstOrderTaylorApproximation", id, "zero")
     EXCEPT !.state = MBFOTA_init(Stub(id), a, <<PyInt(0), PyInt(1)>>)]

Combined(f, d, N) ==
    [Object("CombinedFunction", "none", "zero")
     EXCEPT !.grp_f = f, !.grp_d = d, !.grp_N = N]

CombinedMultiblock(f, d, N) ==
    [Object("CombinedMultiblockFunction", "none", "zero")
     EXCEPT !.grp_f = f, !.grp_d = d, !.grp_N = N]

\* isinstance(o, BaseTaylor): MultiblockBaseTaylor does not derive from it
IsBaseTaylor(o) == o.cls = "FirstOrderTaylorApproximation"

\* isinstance(o, multiblockprops.MultiblockFunction)
IsMultiblockFunction(o) ==
    o.cls \in {"MultiblockFunction", "MultiblockFirstOrderTaylorApproximation"}

hasattr(o, name) == name \in DOMAIN o.attrs

setattr(h, o, name, v) == [h EXCEPT ![o].attrs = (name :> v) @@ @]

RECURSIVE Flatten(_)
Flatten(ss) == IF ss = <<>> THEN <<>> ELSE Head(ss) \o Flatten(Tail(ss))

\* the entries of the three groups in the order the wrapper visits them
Entries(o) ==
    IF o.cls = "CombinedMultiblockFunction"
    THEN Flatten(Flatten(o.grp_f)) \o Flatten(o.grp_d) \o Flatten(o.grp_N)
    ELSE o.grp_f \o o.grp_d \o o.grp_N

\* what a call gives: the heap after it and what it returned or raised
Raise(h, exc) == [heap |-> h, exc |-> exc, val |-> None]

Return(h, val) == [heap |-> h, exc |-> "none", val |-> val]

(***************************************************************************)
(* copy.deepcopy: a copy of the object and of the objects of its groups,   *)
(* under fresh identities.  A function installed on the instance is        *)
(* re-bound to the copy; the object its closure names stays the one it     *)
(* was.                                                                    *)
(***************************************************************************)
Position(seq, x) == CHOOSE k \in 1..Len(seq) : seq[k] = x

deepcopy_alias(h, o) == [heap |-> h, obj |-> o]

deepcopy(h, o) ==
    LET kids == Entries(h[o])
        n == Len(h)
        New(i) == n + 1 + Position(kids, i)
        M1(s) == [k \in 1..Len(s) |-> New(s[k])]
        M2(s) == [k \in 1..Len(s) |-> M1(s[k])]
        M3(s) == [k \in 1..Len(s) |-> M2(s[k])]
        top == IF h[o].cls = "CombinedMultiblockFunction"
               THEN [h[o] EXCEPT !.grp_f = M3(@), !.grp_d = M2(@), !.grp_N = M2(@)]
               ELSE [h[o] EXCEPT !.grp_f = M1(@), !.grp_d = M1(@), !.grp_N = M1(@)]
    IN  [heap |-> h \o <<top>> \o [k \in 1..Len(kids) |-> h[kids[k]]],
         obj |-> n + 1]

(***************************************************************************)
(* class FirstOrderTaylorWrapper                                           *)
(***************************************************************************)
\* a + b where a is a Python number or an array of b's shape
np_plus(a, b) ==
    IF a.shape = <<>> THEN np_add_scalar(a.data[1], b) ELSE np_add(a, b)

\* new_f of _wrap, bound to the object o
new_f(h, o, x) ==
    LET a == h[o].attrs
        d == np_dot(np_T(a["_taylor_grad_f_at_point"]),
                    np_sub(x, a["_taylor_point"]))
        val == np_plus(a["_taylor_f_at_point"], d.val)
        pen(k) == PenaltyF(h[(h[o].grp_d \o h[o].grp_N)[k]].nonf, x)
    IN  IF d.exc # "none" THEN Raise(h, d.exc)
        ELSE IF h[o].cls = "CombinedFunction"
        THEN Return(h, np_item00(np_add_scalar(
                          SumSeq([q \in 1..(Len(h[o].grp_d \o h[o].grp_N)) |-> pen(q)]), val)))
        ELSE Return(h, np_item00(val))

\* new_grad of _wrap
new_grad(h, o, x) ==
    LET grad == h[o].attrs["_taylor_grad_f_at_point"]
    IN  IF h[o].cls = "CombinedFunction"
        THEN Raise(h, "NotModelled")
        ELSE Return(h, grad)

\* fun.f(point) and fun.grad(point) of a single-block object
obj_f(h, o, x) ==
    IF h[o].f = "new_f" THEN new_f(h, o, x)
    ELSE IF h[o].cls = "FirstOrderTaylorApproximation"
    THEN LET r == FOTA_f(h[o].state, x)
         IN  [heap |-> [h EXCEPT ![o].state = r.self], exc |-> r.exc,
              val |-> r.val]
    ELSE IF h[o].cls = "Penalty"
    THEN Return(h, Scalar(PenaltyF(h[o].nonf, x)))
    ELSE Return(h, Scalar(FunF(h[o].id, x)))

obj_grad(h, o, x) ==
    IF h[o].grad = "new_grad" THEN new_grad(h, o, x)
    ELSE IF h[o].cls = "FirstOrderTaylorApproximation"
    THEN LET r == FOTA_grad(h[o].state, x)
         IN  [heap |-> [h EXCEPT ![o].state = r.self], exc |-> r.exc,
              val |-> r.val]
    ELSE IF h[o].cls = "Penalty"
    THEN Return(h, PenaltyGrad(h[o].nonf, x))
    ELSE Return(h, FunGrad(h[o].id, x))

\* FirstOrderTaylorWrapper._wrap, from its last statements to its first.
\* gv is what fun.grad(point) gave: the third marker is set and new_f and
\* new_grad are installed.
wrap_install(gv, fun) ==
    IF gv.exc # "none" THEN Raise(gv.heap, gv.exc)
    ELSE Return([setattr(gv.heap, fun, "_taylor_grad_f_at_point", gv.val)
                 EXCEPT ![fun].f = "new_f", ![fun].grad = "new_grad"], fun)

\* the check of _taylor_grad_f_at_point; for a CombinedFunction
\* fun._grad_f(point) is called instead of fun.grad(point)
wrap_grad_f_at_point(h, fun, point) ==
    IF hasattr(h[fun], "_taylor_grad_f_at_point") THEN Raise(h, "RuntimeError")
    ELSE IF h[fun].cls = "CombinedFunction" THEN Raise(h, "AttributeError")
    ELSE wrap_install(obj_grad(h, fun, point), fun)

\* fv is what fun.f(point) gave: the second marker is set
wrap_set_f_at_point(fv, fun, point) ==
    IF fv.exc # "none" THEN Raise(fv.heap, fv.exc)
    ELSE wrap_grad_f_at_point(
             setattr(fv.heap, fun, "_taylor_f_at_point", fv.val), fun, point)

\* the check of _taylor_f_at_point; for a CombinedFunction fun._f(point) is
\* called, and _f is the list of the loss terms
wrap_f_at_point(h, fun, point) ==
    IF hasattr(h[fun], "_taylor_f_at_point") THEN Raise(h, "RuntimeError")
    ELSE IF h[fun].cls = "CombinedFunction" THEN Raise(h, "TypeError")
    ELSE wrap_set_f_at_point(obj_f(h, fun, point), fun, point)

\* FirstOrderTaylorWrapper._wrap: the check of _taylor_point
wrap(h, fun, point) ==
    IF hasattr(h[fun], "_taylor_point") THEN Raise(h, "RuntimeError")
    ELSE wrap_f_at_point(setattr(h, fun, "_taylor_point", point), fun, point)

\* new_f of _mb_wrap.  x is the list of the blocks: x - self._taylor_point[i]
\* is the array of all blocks of x less block i of the point, np.dot gives an
\* array of shape (1, len(x), 1), and val[0, 0] its first row, of shape (1,),
\* which belongs to block 0 of x.
mb_new_f(h, o, x) ==
    LET a == h[o].attrs
        n == Len(a["_taylor_point"])
        term(i) == a["_taylor_f_at_point"].data[1]
                   + np_dot(np_T(a["_taylor_grad_f_at_point"][i]),
                            np_sub(x[1], a["_taylor_point"][i])).val.data[1]
    IN  Return(h, [shape |-> <<1>>,
                   data |-> <<SumSeq([q \in 1..n |-> term(q)]) + MBNonF(h[o].nonf, x)>>])

\* new_grad of _mb_wrap: the list of all captured gradients plus the array
\* _grad_non_f gives, which is the array of shape (len(point), p, 1)
mb_new_grad(h, o, x, index) ==
    LET grad == h[o].attrs["_taylor_grad_f_at_point"]
        non == MBGradNonF(h[o].nonf, x, index)
        p == non.shape[1]
    IN  Return(h, [shape |-> <<Len(grad), p, 1>>,
                   data |-> [m \in 1..(Len(grad) * p) |->
                               grad[((m - 1) \div p) + 1].data[((m - 1) % p) + 1]
                               + non.data[((m - 1) % p) + 1]]])

\* the classes of the model that have the methods _f and _grad_f
Has_f(o) == o.cls = "MultiblockFunction"

\* FirstOrderTaylorWrapper._mb_wrap, from its last statements to its first:
\* the check of _taylor_grad_f_at_point, the captured gradients of all
\* blocks, and new_f and new_grad installed
mb_wrap_grad_f_at_point(h, fun, point) ==
    IF hasattr(h[fun], "_taylor_grad_f_at_point") THEN Raise(h, "RuntimeError")
    ELSE Return([setattr(h, fun, "_taylor_grad_f_at_point",
                         [i \in 1..Len(point) |->
                            MBFunGrad(h[fun].id, point, i - 1)])
                 EXCEPT ![fun].f = "mb_new_f", ![fun].grad = "mb_new_grad"],
                fun)

\* a composite: its _f is the list of its loss terms
IsComposite(o) == o.cls \in {"CombinedFunction", "CombinedMultiblockFunction"}

\* the check of _taylor_f_at_point and fun._f(point): a list is not
\* callable, and the Taylor approximations have no attribute _f
mb_wrap_f_at_point(h, fun, point) ==
    IF hasattr(h[fun], "_taylor_f_at_point") THEN Raise(h, "RuntimeError")
    ELSE IF IsComposite(h[fun]) THEN Raise(h, "TypeError")
    ELSE IF ~Has_f(h[fun]) THEN Raise(h, "AttributeError")
    ELSE mb_wrap_grad_f_at_point(
             setattr(h, fun, "_taylor_f_at_point",
                     Scalar(MBFunF(h[fun].id, point))), fun, point)

\* FirstOrderTaylorWrapper._mb_wrap: the check of _taylor_point
mb_wrap(h, fun, point) ==
    IF hasattr(h[fun], "_taylor_point") THEN Raise(h, "RuntimeError")
    ELSE mb_wrap_f_at_point(setattr(h, fun, "_taylor_point", point),
                            fun, point)

\* the loops of __call__ over the entries of a multiblock composite: every
\* entry that is a BaseTaylor is replaced by what _mb_wrap returns.  r is
\* what the loops gave so far, es the entries left.
RECURSIVE mb_wrap_entries(_, _, _)
mb_wrap_entries(r, es, point) ==
    IF r.exc # "none" \/ es = <<>> THEN r
    ELSE IF IsBaseTaylor(r.heap[Head(es)])
    THEN mb_wrap_entries(mb_wrap(r.heap, Head(es), point), Tail(es), point)
    ELSE mb_wrap_entries(r, Tail(es), point)

\* new_at_point of __call__, whose closure names the composite fun
RECURSIVE at_point_entries(_, _, _)
at_point_entries(h, es, x) ==
    IF es = <<>> THEN h
    ELSE IF IsBaseTaylor(h[Head(es)])
    THEN at_point_entries(
             [h EXCEPT ![Head(es)].state = BaseTaylor_at_point(@, x)],
             Tail(es), x)
    ELSE at_point_entries(h, Tail(es), x)

new_at_point(h, fun, x) == Return(at_point_entries(h, Entries(h[fun]), x), None)

\* the end of the CombinedMultiblockFunction branch: new_at_point is
\* installed on the copy
install_at_point(r, fun) ==
    IF r.exc # "none" THEN r
    ELSE Return([r.heap EXCEPT ![fun].at_point =
                   [impl |-> "new_at_point", fun |-> fun]], fun)

\* the branches of __call__ on the copy h[fun].  In the CombinedFunction
\* branch the first statement, for i in len(fun._f), iterates over an
\* integer.
Wrapper_dispatch(h, fun, point) ==
    IF h[fun].cls = "CombinedFunction"
    THEN Raise(h, "TypeError")
    ELSE IF h[fun].cls = "CombinedMultiblockFunction"
    THEN install_at_point(
             mb_wrap_entries(Return(h, None), Entries(h[fun]), point), fun)
    ELSE IF IsMultiblockFunction(h[fun])
    THEN mb_wrap(h, fun, point)
    ELSE wrap(h, fun, point)

\* the copy made by __call__
Wrapper_copy(c, point) == Wrapper_dispatch(c.heap, c.obj, point)

\* FirstOrderTaylorWrapper.__call__
Wrapper_call(h, function, point) == Wrapper_copy(deepcopy(h, function), point)

(***************************************************************************)
(* The single-block approximation driven by a caller.  ret is the last     *)
(* call and what it gave; epoch is the last call that cleared the caches   *)
(* (the construction, at_point or reset); prev is the point and the caches *)
(* as they were when at_point was last entered; ncalls counts the f and    *)
(* grad calls made since epoch and varied tells whether two of them had    *)
(* different arguments.  The caller zeroes the stub's counters before each *)
(* at_point and reset.                                                     *)
(***************************************************************************)
Dim(self) == self.point.shape[1]

Caches(self) ==
    [point |-> self.point, f_at_point |-> self.f_at_point,
     grad_at_point |-> self.grad_at_point]

Init ==
    \E p \in Dims : \E id \in FunIds : \E a \in Vec(p) :
        /\ approx = FOTA_init(Stub(id), a)
        /\ ret = [op |-> "__init__", arg |-> a, exc |-> "none", val |-> None]
        /\ epoch = "__init__"
        /\ prev = None
        /\ ncalls = 0
        /\ varied = FALSE
        /\ mbapprox = None /\ arglist = None
        /\ heap = None /\ orig = 0 /\ res = None /\ pre = None /\ nwraps = 0

AtPoint ==
    \E b \in Vec(Dim(approx)) :
        /\ approx' = BaseTaylor_at_point(ZeroCounts(approx), b)
        /\ ret' = [op |-> "at_point", arg |-> b, exc |-> "none", val |-> None]
        /\ epoch' = "at_point"
        /\ prev' = Some(Caches(approx))
        /\ ncalls' = 0
        /\ varied' = FALSE
        /\ UNCHANGED <<mbvars, wrapvars>>

\* reset(); ret keeps the object as it was after each statement of the call
Reset ==
    /\ approx' = FOTA_reset(ZeroCounts(approx))
    /\ ret' = [op |-> "reset", arg |-> None, exc |-> "none", val |-> None,
               steps |-> FOTA_reset_steps(ZeroCounts(approx))]
    /\ epoch' = "reset"
    /\ ncalls' = 0
    /\ varied' = FALSE
    /\ UNCHANGED <<prev, mbvars, wrapvars>>

Evaluated(op, w, r) ==
    /\ ncalls < MaxCalls
    /\ approx' = r.self
    /\ ret' = [op |-> op, arg |-> w, exc |-> r.exc, val |-> r.val]
    /\ ncalls' = ncalls + 1
    /\ varied' = (varied \/ (ncalls > 0 /\ ret.arg # w))
    /\ UNCHANGED <<epoch, prev, mbvars, wrapvars>>

F == \E w \in Vec(Dim(approx)) : Evaluated("f", w, FOTA_f(approx, w))

Grad == \E w \in Vec(Dim(approx)) : Evaluated("grad", w, FOTA_grad(approx, w))

Next == AtPoint \/ Reset \/ F \/ Grad

Spec == Init /\ [][Next]_vars

(***************************************************************************)
(* An approximation whose wrapped function is itself an approximation      *)
(* (of a stub), which the caller holds as well and may have evaluated      *)
(* before it builds the outer one around it.  approx is the outer          *)
(* approximation, approx.function the inner one; ret.before is the         *)
(* wrapped function as it was when the call was made.                      *)
(***************************************************************************)
\* the caller zeroes the counters of the stub the inner approximation wraps
ZeroInner(self) == [self EXCEPT !.function = ZeroCounts(@)]

NInit ==
    \E p \in Dims : \E id \in FunIds : \E a, b \in Vec(p) :
      \E evaluated \in BOOLEAN :
        LET built == FOTA_init(Stub(id), a)
            inner == IF evaluated THEN FOTA_grad(built, a).self ELSE built
        IN  /\ approx = FOTA_init(inner, b)
            /\ ret = [op |-> "__init__", arg |-> b, exc |-> "none",
                      val |-> None, before |-> inner]
            /\ epoch = "__init__"
            /\ prev = None
            /\ ncalls = 0
            /\ varied = FALSE
            /\ mbapprox = None /\ arglist = None
            /\ heap = None /\ orig = 0 /\ res = None /\ pre = None
            /\ nwraps = 0

NAtPoint ==
    \E b \in Vec(Dim(approx)) :
        /\ approx' = BaseTaylor_at_point(ZeroInner(approx), b)
        /\ ret' = [op |-> "at_point", arg |-> b, exc |-> "none", val |-> None,
                   before |-> ZeroInner(approx).function]
        /\ epoch' = "at_point"
        /\ ncalls' = 0
        /\ UNCHANGED <<prev, varied, mbvars, wrapvars>>

NReset ==
    /\ approx' = FOTA_reset(ZeroInner(approx))
    /\ ret' = [op |-> "reset", arg |-> None, exc |-> "none", val |-> None,
               before |-> ZeroInner(approx).function]
    /\ epoch' = "reset"
    /\ ncalls' = 0
    /\ UNCHANGED <<prev, varied, mbvars, wrapvars>>

NEvaluated(op, w, r) ==
    /\ ncalls < MaxCalls
    /\ approx' = r.self
    /\ ret' = [op |-> op, arg |-> w, exc |-> r.exc, val |-> r.val,
               before |-> approx.function]
    /\ ncalls' = ncalls + 1
    /\ UNCHANGED <<epoch, prev, varied, mbvars, wrapvars>>

NF == \E w \in Vec(Dim(approx)) : NEvaluated("f", w, FOTA_f(approx, w))

NGrad == \E w \in Vec(Dim(approx)) : NEvaluated("grad", w, FOTA_grad(approx, w))

NL == \E w \in Vec(Dim(approx)) : NEvaluated("L", w, FOTA_L(approx, w))

\* the caller evaluates the inner approximation, which it owns
NInnerGrad ==
    \E w \in Vec(Dim(approx)) :
        LET r == FOTA_grad(approx.function, w)
        IN  NEvaluated("function.grad", w,
                       [self |-> [approx EXCEPT !.function = r.self],
                        exc |-> r.exc, val |-> r.val])

NNext == NAtPoint \/ NReset \/ NF \/ NGrad \/ NL \/ NInnerGrad

SpecNested == NInit /\ [][NNext]_vars

(***************************************************************************)
(* The multiblock approximation driven by a caller, with the same          *)
(* bookkeeping.                                                            *)
(***************************************************************************)


\* the lists of two block indices a caller passes
IndexLists == [1..2 -> IndexValues]

MBDim(self) == self.point[1].shape[1]

MBInit ==
    \E p \in Dims : \E id \in MBFunIds : \E a \in MBPoints(p) :
      \E indices \in IndexLists :
        /\ mbapprox = MBFOTA_init(Stub(id), a, indices)
        /\ arglist = MultiblockBaseTaylor_init_argument(indices)
        /\ ret = [op |-> "__init__", arg |-> a, exc |-> "none", val |-> None]
        /\ epoch = "__init__"
        /\ prev = None
        /\ ncalls = 0
        /\ varied = FALSE
        /\ approx = None
        /\ heap = None /\ orig = 0 /\ res = None /\ pre = None /\ nwraps = 0

MBAtPoint ==
    \E b \in MBPoints(MBDim(mbapprox)) :
        /\ mbapprox' = MultiblockBaseTaylor_at_point(ZeroCounts(mbapprox), b)
        /\ ret' = [op |-> "at_point", arg |-> b, exc |-> "none", val |-> None]
        /\ epoch' = "at_point"
        /\ ncalls' = 0
        /\ varied' = FALSE
        /\ UNCHANGED <<prev, approx, arglist, wrapvars>>

MBReset ==
    /\ mbapprox' = MBFOTA_reset(ZeroCounts(mbapprox))
    /\ ret' = [op |-> "reset", arg |-> None, exc |-> "none", val |-> None]
    /\ epoch' = "reset"
    /\ ncalls' = 0
    /\ varied' = FALSE
    /\ UNCHANGED <<prev, approx, arglist, wrapvars>>

MBEvaluated(op, w, index, r) ==
    /\ ncalls < MaxCalls
    /\ mbapprox' = r.self
    /\ ret' = [op |-> op, arg |-> w, index |-> index, exc |-> r.exc,
               val |-> r.val]
    /\ ncalls' = ncalls + 1
    /\ varied' = (varied \/ (ncalls > 0 /\ ret.arg # w))
    /\ UNCHANGED <<epoch, prev, approx, arglist, wrapvars>>

MBF ==
    \E w \in MBPoints(MBDim(mbapprox)) :
        MBEvaluated("f", w, None, MBFOTA_f(mbapprox, w))

MBGrad ==
    \E w \in MBPoints(MBDim(mbapprox)) : \E index \in 0..(NBlocks - 1) :
        MBEvaluated("grad", w, index, MBFOTA_grad(mbapprox, w, index))

MBNext == MBAtPoint \/ MBReset \/ MBF \/ MBGrad

SpecMB == MBInit /\ [][MBNext]_vars

(***************************************************************************)
(* The wrapper driven by a caller: it wraps the function it built, or the  *)
(* object the last call returned, and calls f, grad and at_point of the    *)
(* object returned.                                                        *)
(***************************************************************************)
\* the functions the caller builds: a plain function, a plain multiblock
\* function, flat composites (a loss and a penalty, two Taylor
\* approximations) and multiblock composites (two multiblock Taylor
\* approximations, two single-block ones, two plain losses and a penalty)
Graphs(p) ==
    {<<PlainFunction(id)>> : id \in FunIds}
    \cup {<<MBFunction(id, nid)>> : id \in MBFunIds, nid \in NonFIds}
    \cup {<<Combined(<<2>>, <<3>>, <<>>), PlainFunction(id), Penalty("l1")>> :
            id \in FunIds}
    \cup {<<Combined(<<2, 3>>, <<>>, <<>>), TaylorObject("sq", a),
            TaylorObject("lin", a)>> : a \in Vec(p)}
    \cup {<<CombinedMultiblock(<<<< <<2>>, <<3>> >>, << <<>>, <<>> >>>>,
                               << <<>>, <<>> >>, << <<>>, <<>> >>),
            MBTaylorObject("cov", a), MBTaylorObject("sqsum", a)>> :
            a \in MBPoints(p)}
    \cup {<<CombinedMultiblock(<<<< <<2>>, <<3>> >>, << <<>>, <<>> >>>>,
                               << <<>>, <<>> >>, << <<>>, <<>> >>),
            TaylorObject("sq", a), TaylorObject("lin", a)>> : a \in Vec(p)}
    \cup {<<CombinedMultiblock(<<<< <<2>>, <<>> >>, << <<>>, <<3>> >>>>,
                               << <<4>>, <<>> >>, << <<>>, <<>> >>),
            MBFunction("cov", "zero"), MBFunction("sqsum", "zero"),
            Penalty("l1")>>}

\* the wrapper takes the multiblock branches for o: a multiblock composite
\* or an instance of multiblockprops.MultiblockFunction
IsMultiblock(o) ==
    o.cls = "CombinedMultiblockFunction" \/ IsMultiblockFunction(o)

\* the dimension of the vectors of the run, kept in res
PointsFor(o, p) == IF IsMultiblock(o) THEN MBPoints(p) ELSE Vec(p)

WInit ==
    \E p \in Dims : \E g \in Graphs(p) :
        /\ heap = g
        /\ orig = 1
        /\ res = [exc |-> "not called", obj |-> 0, target |-> 0,
                  point |-> None, dim |-> p]
        /\ pre = g
        /\ nwraps = 0
        /\ ret = [op |-> "__init__", arg |-> None, exc |-> "none", val |-> None]
        /\ approx = None /\ mbapprox = None /\ arglist = None /\ epoch = "__init__"
        /\ prev = None /\ ncalls = 0 /\ varied = FALSE

WIdle == UNCHANGED <<approx, mbvars, epoch, prev, ncalls, varied, orig>>

Wrapped(target, point, r) ==
    /\ nwraps < MaxWraps
    /\ heap' = r.heap
    /\ res' = [exc |-> r.exc, obj |-> IF r.exc = "none" THEN r.val ELSE 0,
               target |-> target, point |-> point, dim |-> res.dim]
    /\ pre' = heap
    /\ nwraps' = nwraps + 1
    /\ ret' = [op |-> "wrap", arg |-> point, exc |-> r.exc, val |-> None]
    /\ WIdle

\* wrapper(function, point), function being the caller's own or the object
\* the last call returned
Wrap ==
    \E target \in {orig} \cup (IF res.exc = "none" THEN {res.obj} ELSE {}) :
      \E point \in PointsFor(heap[orig], res.dim) :
        Wrapped(target, point, Wrapper_call(heap, target, point))

Called(op, x, index, r) ==
    /\ heap' = r.heap
    /\ ret' = [op |-> op, arg |-> x, index |-> index, exc |-> r.exc,
               val |-> r.val]
    /\ UNCHANGED <<res, pre, nwraps>>
    /\ WIdle

\* f(x) of the object returned, when the wrapper installed it
ResF ==
    /\ res.exc = "none"
    /\ \E x \in PointsFor(heap[orig], res.dim) :
         \/ /\ heap[res.obj].f = "new_f"
            /\ Called("f", x, None, new_f(heap, res.obj, x))
         \/ /\ heap[res.obj].f = "mb_new_f"
            /\ Called("f", x, None, mb_new_f(heap, res.obj, x))

\* grad(x) or grad(x, index) of the object returned
ResGrad ==
    /\ res.exc = "none"
    /\ \E x \in PointsFor(heap[orig], res.dim) :
         \/ /\ heap[res.obj].grad = "new_grad"
            /\ Called("grad", x, None, new_grad(heap, res.obj, x))
         \/ /\ heap[res.obj].grad = "mb_new_grad"
            /\ \E index \in 0..(NBlocks - 1) :
                 Called("grad", x, index, mb_new_grad(heap, res.obj, x, index))

\* at_point(x) of the composite returned
ResAtPoint ==
    /\ res.exc = "none"
    /\ heap[res.obj].at_point.impl = "new_at_point"
    /\ \E x \in PointsFor(heap[orig], res.dim) :
         Called("at_point", x, None,
                new_at_point(heap, heap[res.obj].at_point.fun, x))

WNext == Wrap \/ ResF \/ ResGrad \/ ResAtPoint

SpecWrap == WInit /\ [][WNext]_vars

(***************************************************************************)
(* The wrap routines _wrap and _mb_wrap called on a target that may        *)
(* already carry marker fields: any subset of the three, set on the        *)
(* target by a caller.  The routines test a marker with hasattr and never  *)
(* read the value of one that is present, so every marker set beforehand   *)
(* holds the same value a, a point.  The targets are the objects __call__  *)
(* hands to the routines and the composite _wrap tests for: _wrap is       *)
(* called on a single-block function, a FirstOrderTaylorApproximation or   *)
(* a CombinedFunction, _mb_wrap on a multiblock function, a                *)
(* MultiblockFirstOrderTaylorApproximation or a                            *)
(* FirstOrderTaylorApproximation (an entry of a multiblock composite).     *)
(* The routine is called on the target itself (orig), the first object of  *)
(* the heap.                                                               *)
(***************************************************************************)
Markers == {"_taylor_point", "_taylor_f_at_point", "_taylor_grad_f_at_point"}

\* the heap g after setattr(fun, name, a) on its first object, for every
\* name in present
WithMarkers(g, present, a) ==
    [g EXCEPT ![1].attrs = [name \in present |-> a]]

SingleBlockTargets(p) ==
    {WithMarkers(<<PlainFunction(id)>>, present, a) :
        id \in FunIds, present \in SUBSET Markers, a \in Vec(p)}
    \cup {WithMarkers(<<TaylorObject(id, a)>>, present, a) :
            id \in FunIds, present \in SUBSET Markers, a \in Vec(p)}
    \cup {WithMarkers(<<Combined(<<2>>, <<3>>, <<>>), PlainFunction(id),
                         Penalty("l1")>>, present, a) :
            id \in FunIds, present \in SUBSET Markers, a \in Vec(p)}

MultiblockTargets(p) ==
    {WithMarkers(<<MBFunction(id, "zero")>>, present, a) :
        id \in MBFunIds, present \in SUBSET Markers, a \in MBPoints(p)}
    \cup {WithMarkers(<<MBTaylorObject(id, a)>>, present, a) :
            id \in MBFunIds, present \in SUBSET Markers, a \in MBPoints(p)}

Targets(p) == SingleBlockTargets(p) \cup MultiblockTargets(p)

RInit ==
    \E p \in Dims : \E t \in Targets(p) :
        /\ heap = t
        /\ orig = 1
        /\ res = [exc |-> "not called", obj |-> 0, target |-> 0,
                  point |-> None, dim |-> p]
        /\ pre = t
        /\ nwraps = 0
        /\ ret = [op |-> "__init__", arg |-> None, exc |-> "none", val |-> None]
        /\ approx = None /\ mbapprox = None /\ arglist = None
        /\ epoch = "__init__" /\ prev = None /\ ncalls = 0 /\ varied = FALSE

RoutineCalled(op, point, r) ==
    /\ nwraps < MaxWraps
    /\ heap' = r.heap
    /\ res' = [exc |-> r.exc, obj |-> IF r.exc = "none" THEN r.val ELSE 0,
               target |-> orig, point |-> point, dim |-> res.dim]
    /\ pre' = heap
    /\ nwraps' = nwraps + 1
    /\ ret' = [op |-> op, arg |-> point, exc |-> r.exc, val |-> None]
    /\ WIdle

\* the classes of the targets of _wrap and of _mb_wrap
WrapTargetClasses ==
    {"Function", "FirstOrderTaylorApproximation", "CombinedFunction"}

MbWrapTargetClasses ==
    {"MultiblockFunction", "MultiblockFirstOrderTaylorApproximation",
     "FirstOrderTaylorApproximation"}

\* self._wrap(fun, point)
RoutineWrap ==
    /\ heap[orig].cls \in WrapTargetClasses
    /\ \E point \in Vec(res.dim) :
         RoutineCalled("_wrap", point, wrap(heap, orig, point))

\* self._mb_wrap(fun, point)
RoutineMbWrap ==
    /\ heap[orig].cls \in MbWrapTargetClasses
    /\ \E point \in MBPoints(res.dim) :
         RoutineCalled("_mb_wrap", point, mb_wrap(heap, orig, point))

RNext == RoutineWrap \/ RoutineMbWrap

SpecRoutine == RInit /\ [][RNext]_vars

(***************************************************************************)
(* Claims about the single-block approximation.                            *)
(***************************************************************************)
FunId == approx.function.id

\* C1: in every reachable state a non-null f_at_point is function.f(point)
\* and a non-null grad_at_point is function.grad(point) for the current
\* point, and right after an at_point call both caches are null.
C1_CachesOfCurrentPoint ==
    /\ approx.f_at_point # None
         => approx.f_at_point = Some(FunF(FunId, approx.point))
    /\ approx.grad_at_point # None
         => approx.grad_at_point = Some(FunGrad(FunId, approx.point))
    /\ ret.op = "at_point"
         => approx.f_at_point = None /\ approx.grad_at_point = None

\* C1 witness: the caches were filled at a, at_point moved the point to a b
\* where the function has another value and gradient, and the caches have
\* been filled again.
C1_Witness ==
    /\ prev # None
    /\ prev[1].f_at_point # None
    /\ prev[1].grad_at_point # None
    /\ approx.f_at_point # None
    /\ approx.grad_at_point # None
    /\ approx.f_at_point # prev[1].f_at_point
    /\ approx.grad_at_point # prev[1].grad_at_point

\* C2: after the construction or an at_point call, f and grad calls alone
\* (whatever their arguments) make the wrapped function compute f at most
\* once and grad at most once.
C2_AtMostOnce ==
    epoch \in {"__init__", "at_point"}
        => approx.function.nf <= 1 /\ approx.function.ngrad <= 1

\* C2 witness: several f and grad calls with differing arguments since an
\* at_point, one computation of each.
C2_Witness ==
    /\ epoch = "at_point"
    /\ ncalls >= 2
    /\ varied
    /\ approx.function.nf = 1
    /\ approx.function.ngrad = 1

\* C3: once at_point(b) has been called, f(b) returns function.f(b) and
\* grad(x) returns function.grad(b) for every x, so nothing cached from the
\* earlier point is returned.
C3_RecenterInvalidation ==
    prev # None =>
        /\ (ret.op = "f" /\ ret.arg = approx.point)
             => ret.exc = "none" /\ NumEq(ret.val, FunF(FunId, approx.point))
        /\ ret.op = "grad"
             => ret.exc = "none" /\ ret.val = FunGrad(FunId, approx.point)

\* C12: whatever calls came before, f(w) returns
\* function.f(a) + <function.grad(a), w - a> and grad(w) returns
\* function.grad(a), a being the current expansion point.
C12_LinearExpansion ==
    LET a == approx.point
    IN  /\ ret.op = "f" =>
             /\ ret.exc = "none"
             /\ NumEq(ret.val, FunF(FunId, a)
                                + InnerProduct(FunGrad(FunId, a),
                                               np_sub(ret.arg, a)))
        /\ ret.op = "grad" =>
             ret.exc = "none" /\ ret.val = FunGrad(FunId, a)

\* C15: reset() calls the wrapped function's reset while the local caches
\* are still as they were and clears them afterwards; when it returns both
\* caches are null and the point is the one before the call, and the next
\* f or grad call computes function.f and function.grad again, at that
\* point.
C15_ResetDelegatesThenClears ==
    [][/\ ret'.op = "reset" =>
            /\ ret'.steps[1].function.nreset = 1
            /\ ret'.steps[1].f_at_point = approx.f_at_point
            /\ ret'.steps[1].grad_at_point = approx.grad_at_point
            /\ approx'.f_at_point = None
            /\ approx'.grad_at_point = None
            /\ approx'.point = approx.point
       /\ (ret.op = "reset" /\ ret'.op \in {"f", "grad"}) =>
            /\ approx'.point = approx.point
            /\ approx'.function.nf = 1
            /\ approx'.function.ngrad = 1
            /\ approx'.f_at_point = Some(FunF(FunId, approx.point))
            /\ approx'.grad_at_point = Some(FunGrad(FunId, approx.point))
      ]_vars

\* C15 witness: reset was called on an approximation whose two caches were
\* filled; the wrapped function's reset saw them filled and they are null
\* now.
C15_Witness ==
    /\ ret.op = "reset"
    /\ ret.steps[1].function.nreset = 1
    /\ ret.steps[1].f_at_point # None
    /\ ret.steps[1].grad_at_point # None
    /\ approx.f_at_point = None
    /\ approx.grad_at_point = None

\* C17: construction, at_point, f, grad and L of an approximation leave
\* the wrapped function as it was: when it is itself an approximation, its
\* point and its cached value and gradient are unchanged.
C17_WrappedFunctionUntouched ==
    ret.op \in {"__init__", "at_point", "f", "grad", "L"} =>
        Caches(approx.function) = Caches(ret.before)

(***************************************************************************)
(* Claims about the multiblock approximation.                              *)
(***************************************************************************)
\* C10: with block_indices = [0, 1] and expansion point a, f([w0, w1]) is
\* f([a0, a1]) + <g0, w0 - a0> + <g1, w1 - a1>, g_i the gradient of block i
\* at a, and grad(w, 1) is g1 for every w.
C10_TwoBlockExpansion ==
    LET a == mbapprox.point
        id == mbapprox.function.id
        g0 == MBFunGrad(id, a, 0)
        g1 == MBFunGrad(id, a, 1)
    IN  mbapprox.indices = <<PyInt(0), PyInt(1)>> =>
          /\ ret.op = "f" =>
               /\ ret.exc = "none"
               /\ ret.val = Scalar(MBFunF(id, a)
                                   + InnerProduct(g0, np_sub(ret.arg[1], a[1]))
                                   + InnerProduct(g1, np_sub(ret.arg[2], a[2])))
          /\ (ret.op = "grad" /\ ret.index = 1) =>
               ret.exc = "none" /\ ret.val = g1

\* C10 witness: f was called after an at_point, with block_indices [0, 1],
\* at a w where both blocks contribute to the expansion, differently.
C10_Witness ==
    LET a == mbapprox.point
        id == mbapprox.function.id
        t0 == InnerProduct(MBFunGrad(id, a, 0), np_sub(ret.arg[1], a[1]))
        t1 == InnerProduct(MBFunGrad(id, a, 1), np_sub(ret.arg[2], a[2]))
    IN  /\ mbapprox.indices = <<PyInt(0), PyInt(1)>>
        /\ epoch = "at_point"
        /\ ret.op = "f"
        /\ t0 # 0
        /\ t1 # 0
        /\ t0 # t1

\* C11: after the construction with a list of integer-convertible block
\* indices, every element of self.indices is an integer.
C11_StoredIndicesAreIntegers ==
    \A i \in 1..Len(mbapprox.indices) : IsInt(mbapprox.indices[i])

\* C16: the first f or grad call after the construction, an at_point or a
\* reset computes the gradients of all entries of block_indices at once
\* (one cached entry per block index, whichever block was asked for), and
\* the later f and grad calls, for any block and any w, make no further
\* call of the wrapped function's f or grad.
C16_AllBlocksOnFirstAccess ==
    LET n == Len(mbapprox.indices)
        fn == mbapprox.function
    IN  /\ ncalls = 0 =>
              /\ mbapprox.grad_at_point = None
              /\ fn.nf = 0 /\ fn.ngrad = 0
        /\ ncalls >= 1 =>
              /\ ret.exc = "none"
              /\ mbapprox.grad_at_point # None
              /\ Len(mbapprox.grad_at_point[1]) = n
              /\ \A i \in 1..n :
                    mbapprox.grad_at_point[1][i] =
                        MBFunGrad(fn.id, SelectedBlocks(mbapprox).val, i - 1)
              /\ fn.nf = 1
              /\ fn.ngrad = n

(***************************************************************************)
(* Claims about the wrapper.                                               *)
(***************************************************************************)
Root == heap[orig]

IsTaylor(o) ==
    o.cls \in {"FirstOrderTaylorApproximation",
               "MultiblockFirstOrderTaylorApproximation"}

\* the loss terms of a composite
Losses(o) ==
    IF o.cls = "CombinedMultiblockFunction"
    THEN Flatten(Flatten(o.grp_f))
    ELSE o.grp_f

\* f(a) of the function the caller built
OrigF(o, a) ==
    IF o.cls = "Function"
    THEN FunF(o.id, a)
    ELSE MBFunF(o.id, a) + MBNonF(o.nonf, a)

\* C4: the wrapper called on the object a successful call returned raises
\* the double-wrap RuntimeError, whatever the shape of the function.
C4_DoubleWrapRejected ==
    (ret.op = "wrap" /\ res.target # orig) => res.exc = "RuntimeError"

\* C5: a call of the wrapper, whether it returns or raises, leaves every
\* object that existed before it as it was (markers, entry points, groups):
\* only the copy is changed.
C5_OriginalUntouched ==
    ret.op = "wrap" => \A i \in 1..Len(pre) : heap[i] = pre[i]

\* C5 witness: the wrapper returned a copy of the caller's function that
\* carries the three markers and the installed f.
C5_Witness ==
    /\ ret.op = "wrap"
    /\ res.exc = "none"
    /\ res.target = orig
    /\ res.obj # orig
    /\ DOMAIN heap[res.obj].attrs =
         {"_taylor_point", "_taylor_f_at_point", "_taylor_grad_f_at_point"}
    /\ heap[res.obj].f # Root.f
    /\ Root.attrs = <<>>

\* C6: the object returned by wrap(f, a), f a plain single-block or
\* multiblock function, has f(a) equal to the original's f(a).
C6_ValueAtCentre ==
    (ret.op = "f" /\ res.target = orig /\ ret.arg = res.point) =>
        ret.exc = "none" /\ NumEq(ret.val, OrigF(Root, res.point))

\* C7: grad(x) of the object returned is the gradient captured at a:
\* function.grad(a) in single-block mode, the captured gradient of block
\* index alone in multiblock mode.
C7_GradientCaptured ==
    (ret.op = "grad" /\ res.target = orig) =>
        /\ ret.exc = "none"
        /\ ret.val = IF Root.cls = "Function"
                     THEN FunGrad(Root.id, res.point)
                     ELSE MBFunGrad(Root.id, res.point, ret.index)

\* C8: wrapping a composite whose two loss terms are Taylor approximations
\* returns a composite, and at_point(b) of that composite moves both loss
\* terms to b, with their caches cleared so that their next f is the
\* expansion around b.
C8_CompositeCascade ==
    (/\ IsComposite(Root)
     /\ Len(Losses(Root)) = 2
     /\ \A k \in 1..2 : IsTaylor(heap[Losses(Root)[k]])) =>
        /\ (ret.op = "wrap" /\ res.target = orig) => res.exc = "none"
        /\ ret.op = "at_point" =>
             \A k \in 1..2 :
                LET t == heap[Losses(heap[res.obj])[k]].state
                IN  /\ t.point = ret.arg
                    /\ t.f_at_point = None
                    /\ t.grad_at_point = None

\* C9: for a flat composite of one smooth loss f and one penalty g,
\* wrap(composite, a) returns an object whose f(x) is
\* f(a) + <grad_f(a), x - a> + g(x).
C9_PenaltyPassthrough ==
    (/\ Root.cls = "CombinedFunction"
     /\ Len(Root.grp_f) = 1
     /\ heap[Root.grp_f[1]].cls = "Function"
     /\ Len(Root.grp_d) = 1) =>
        LET loss == heap[Root.grp_f[1]]
            g == heap[Root.grp_d[1]]
        IN  /\ (ret.op = "wrap" /\ res.target = orig) => res.exc = "none"
            /\ ret.op = "f" =>
                 /\ ret.exc = "none"
                 /\ ret.val = Scalar(
                        FunF(loss.id, res.point)
                        + InnerProduct(FunGrad(loss.id, res.point),
                                       np_sub(ret.arg, res.point))
                        + PenaltyF(g.nonf, ret.arg))

\* C13: in the copy the wrapper returns for a multiblock composite, every
\* entry that is a MultiblockFirstOrderTaylorApproximation has been wrapped
\* by the multiblock-wrap routine at the given point (it carries the
\* markers and the installed f and grad), and every other entry is as it
\* was.
C13_MultiblockEntriesWrapped ==
    (/\ ret.op = "wrap"
     /\ res.target = orig
     /\ res.exc = "none"
     /\ Root.cls = "CombinedMultiblockFunction") =>
        \A k \in 1..Len(Entries(Root)) :
            LET o == heap[Entries(Root)[k]]
                e == heap[Entries(heap[res.obj])[k]]
            IN  IF o.cls = "MultiblockFirstOrderTaylorApproximation"
                THEN /\ hasattr(e, "_taylor_point")
                     /\ e.attrs["_taylor_point"] = res.point
                     /\ hasattr(e, "_taylor_f_at_point")
                     /\ hasattr(e, "_taylor_grad_f_at_point")
                     /\ e.f = "mb_new_f"
                     /\ e.grad = "mb_new_grad"
                ELSE e = o

(***************************************************************************)
(* Claims about the wrap routines.                                         *)
(***************************************************************************)
\* the marker fields the target carried when the routine was called
MarkersBefore == DOMAIN pre[orig].attrs

\* C14: _wrap and _mb_wrap raise the double-wrap RuntimeError whenever the
\* target already carries one or more of the three marker fields, and do
\* not return the target.
C14_AnyMarkerRejected ==
    (ret.op \in {"_wrap", "_mb_wrap"} /\ MarkersBefore # {}) =>
        res.exc = "RuntimeError" /\ res.obj = 0

\* C18: a call of _wrap or _mb_wrap that raises the double-wrap
\* RuntimeError leaves the target as it was: the same marker fields with
\* the same values, the same f and grad.
C18_FailedWrapLeavesTarget ==
    (ret.op \in {"_wrap", "_mb_wrap"} /\ res.exc = "RuntimeError") =>
        heap[orig] = pre[orig]

====
